---- MODULE Spec2Model ----
(***************************************************************************)
(* Model of the Linear caching layer (linear_cache.py): the LinearCache    *)
(* object (permanent tier, session tier, rate window, cache file) and the  *)
(* CachedLinearClient wrapper around it; of the progress engine            *)
(* (linear_enhanced.py); and of the session loop                           *)
(* (autonomous_agent_optimized.py).                                        *)
(***************************************************************************)
EXTENDS Integers, Sequences, FiniteSets, TLC

VARIABLES
    clock,                \* time.time() / datetime.now(), in whole seconds
    cache_file,           \* content of <project_dir>/.linear_cache.json
    permanent_cache,      \* self.permanent_cache   {'issues': {id: entry}}
    metadata_cache,       \* self.metadata_cache
    session_cache,        \* self.session_cache     {cache_key: {issues, timestamp}}
    api_call_count,       \* self.api_call_count
    api_call_timestamps,  \* self.api_call_timestamps
    last,                 \* the call that has just returned (none since the clock moved), and its result
    first_put,            \* history: issue id -> the data of the first cache_issue for it
    last_put,             \* history: project id -> its last cache_session_issues, or that it was invalidated since
    calls,                \* history: the clock of every track_api_call
    api_reached,          \* history: how often a wrapper reached its "call API" point
    project_data,         \* EnhancedLinearIntegration.project_data
    linear_marker,        \* whether <project_dir>/.linear_project.json exists
    project_file_data,    \* the content of .linear_project.json, if it exists
    all_issues,           \* the project's issues as Linear returns them
    environ,              \* os.environ: the two variables validate_environment reads
    max_iterations,       \* run_optimized_autonomous_agent: the argument
    auto_push,            \* run_optimized_autonomous_agent: the argument
    loop_pc,              \* run_optimized_autonomous_agent: where it stands
    iteration,            \* run_optimized_autonomous_agent: the local
    is_first_run,         \* run_optimized_autonomous_agent: the local
    agent_status,         \* run_optimized_autonomous_agent: the local status
    started,              \* history: the sessions started, with mode, marker and outcome
    slept                 \* history: the seconds slept after each session

vars == <<clock, cache_file, permanent_cache, metadata_cache, session_cache,
          api_call_count, api_call_timestamps, last, first_put, last_put,
          calls, api_reached, project_data, linear_marker, project_file_data, all_issues,
          environ,
          max_iterations, auto_push, loop_pc, iteration, is_first_run, agent_status, started, slept>>

----------------------------------------------------------------------------
(* Bounds of the model *)

MaxClock == 300        \* the cache tiers are explored up to this clock
MaxRateClock == 7200   \* the rate window is explored up to this clock
MaxClientClock == 3600 \* the wrapper is explored up to this clock
MaxCalls == 4          \* track_api_call calls explored per run, after its burst

(* Program constants *)

SESSION_TTL == 300     \* linear_cache.py:117
RATE_WINDOW == 3600    \* linear_cache.py:75
WARN_THRESHOLD == 1200 \* linear_cache.py:79
RATE_LIMIT == 1500     \* linear_cache.py:149

----------------------------------------------------------------------------
(* Python values *)

\* Optional[...]: None, or a value
None == [some |-> FALSE]
Some(v) == [some |-> TRUE, val |-> v]

\* dict.get(k)
Get(d, k) == IF k \in DOMAIN d THEN Some(d[k]) ELSE None

\* an empty dict
EmptyDict == <<>>

\* the values json.load can return that are not dicts: null and the list []
JsonNull == [json |-> "null"]
JsonEmptyList == [json |-> "list"]

\* isinstance(v, dict)
IsDict(v) == "json" \notin DOMAIN v

\* len(v) of a dict or of the list [], which raises TypeError on None
PyLen(v) == IF IsDict(v) THEN Cardinality(DOMAIN v) ELSE 0

\* the exceptions the cache's methods can raise on a tier they did not build
Exceptions == {"KeyError", "AttributeError", "TypeError"}

\* a missing field of an issue dict reads as None through .get(); -1 stands
\* for None where the field is an integer
NoneStr == "None"
NonePriority == -1

\* truthiness of a string: None and '' are false
Truthy(s) == s # "" /\ s # NoneStr

----------------------------------------------------------------------------
(* Inputs *)

ProjectIds == {"P", "Q"}

\* the issue dicts the tracker hands out: two versions of issue A (the remote
\* title/description changed in between), an issue B without description and
\* priority, and an issue dict without an id
IssueA1 == [id |-> "A", title |-> "t1", description |-> "d1", priority |-> 1, state |-> "Todo"]
IssueA2 == [id |-> "A", title |-> "t2", description |-> "d2", priority |-> 2, state |-> "Done"]
IssueB == [id |-> "B", title |-> "t3", description |-> NoneStr, priority |-> NonePriority, state |-> "Done"]
IssueNoId == [id |-> "", title |-> "t4", description |-> "d4", priority |-> 3, state |-> "Todo"]

Issues == {IssueA1, IssueA2, IssueB, IssueNoId}
IssueIds == {"A", "B", ""}

\* the issue lists handed to cache_session_issues: empty, one issue, two
\* versions of one issue, two different issues, with and without an id
IssueLists == {<<>>, <<IssueA1>>, <<IssueA2>>, <<IssueA2, IssueA1>>, <<IssueA1, IssueB>>,
               <<IssueNoId>>, <<IssueNoId, IssueB>>}

\* the status filters of list_issues
Statuses == {NoneStr, "Done"}

\* the calls already recorded at clock 0 when a run starts: none, or a burst
\* that ends just below the warning threshold or just below the rate limit
BurstSizes == {0, 1198, 1498}

\* outcomes of writing the cache file: written, open() failed (file left as
\* it was), or the write failed after open() truncated the file
SaveOutcomes == {"ok", "open_fails", "write_fails"}
CorruptFile == [kind |-> "corrupt"]
NoFile == [kind |-> "missing"]
UnreadableFile == [kind |-> "unreadable"]

----------------------------------------------------------------------------
(* LinearCache *)

\* save_cache writing the document before the new entry is in the tier
save_cache_stale(pc, mc, file, now, io) ==
    CASE io = "ok" -> [kind |-> "json", permanent |-> [issues |-> EmptyDict],
                       metadata |-> mc, last_updated |-> now]
      [] io = "open_fails" -> file
      [] OTHER -> CorruptFile

\* save_cache: rewrite the whole document; never raises
save_cache(pc, mc, file, now, io) ==
    CASE io = "ok" -> [kind |-> "json", permanent |-> pc, metadata |-> mc, last_updated |-> now]
      [] io = "open_fails" -> file
      [] OTHER -> CorruptFile

\* load_cache answering a file it cannot read with an entry of its own
load_cache_invented(file) ==
    IF file.kind = "json"
    THEN [permanent_cache |-> file.permanent, metadata_cache |-> file.metadata,
          out |-> "Loaded cache"]
    ELSE [permanent_cache |->
              [issues |-> ("A" :> [id |-> "A", title |-> NoneStr, description |-> NoneStr,
                                   priority |-> NonePriority, cached_at |-> 0])],
          metadata_cache |-> EmptyDict, out |-> ""]

\* whether the try block of load_cache raises on a document that parsed to
\* a dict: the printed len(self.permanent_cache.get('issues', {})) raises
\* AttributeError when 'permanent' is not a dict and TypeError when 'issues'
\* is null
load_cache_raises(file) ==
    LET permanent == IF "permanent" \in DOMAIN file THEN file.permanent ELSE EmptyDict
    IN  \/ ~IsDict(permanent)
        \/ /\ "issues" \in DOMAIN permanent
           /\ permanent["issues"] = JsonNull

\* load_cache: the tiers as the document holds them; a file that does not
\* exist, whose open() or json.load() raises or whose content makes the try
\* block raise gives empty tiers
load_cache(file) ==
    IF file.kind = "missing"
    THEN [permanent_cache |-> [issues |-> EmptyDict], metadata_cache |-> EmptyDict,
          out |-> ""]
    ELSE IF file.kind = "json" /\ ~load_cache_raises(file)
    THEN [permanent_cache |-> IF "permanent" \in DOMAIN file THEN file.permanent ELSE EmptyDict,
          metadata_cache |-> IF "metadata" \in DOMAIN file THEN file.metadata ELSE EmptyDict,
          out |-> "Loaded cache"]
    ELSE [permanent_cache |-> [issues |-> EmptyDict], metadata_cache |-> EmptyDict,
          out |-> "Failed to load cache"]

\* what get_cached_issue raises: self.permanent_cache['issues'] without the
\* key, or .get on a list; "" when it returns
get_cached_issue_raises(pc) ==
    IF "issues" \notin DOMAIN pc THEN "KeyError"
    ELSE IF ~IsDict(pc["issues"]) THEN "AttributeError"
    ELSE ""

\* what cache_issue raises: self.permanent_cache['issues'] without the key,
\* or the item assignment on the list []; "" when it returns
cache_issue_raises(pc) ==
    IF "issues" \notin DOMAIN pc THEN "KeyError"
    ELSE IF ~IsDict(pc["issues"]) THEN "TypeError"
    ELSE ""

\* what get_api_stats raises: self.permanent_cache['issues'] without the
\* key; "" when it returns
get_api_stats_raises(pc) ==
    IF "issues" \notin DOMAIN pc THEN "KeyError" ELSE ""

\* get_cached_issue
get_cached_issue(pc, issue_id) == Get(pc["issues"], issue_id)

\* cache_issue without the membership test: the last write wins
cache_issue_overwrite(pc, mc, file, issue_id, issue_data, now, io) ==
    LET entry == [id |-> issue_id,
                  title |-> issue_data.title,
                  description |-> issue_data.description,
                  priority |-> issue_data.priority,
                  cached_at |-> now]
        pc2 == [pc EXCEPT !["issues"] =
                   [k \in DOMAIN @ \cup {issue_id} |-> IF k = issue_id THEN entry ELSE @[k]]]
    IN  [permanent_cache |-> pc2, cache_file |-> save_cache(pc2, mc, file, now, io)]

\* cache_issue: insert only when the id is not cached yet, then save
cache_issue(pc, mc, file, issue_id, issue_data, now, io) ==
    IF issue_id \notin DOMAIN pc["issues"]
    THEN LET entry == [id |-> issue_id,
                       title |-> issue_data.title,
                       description |-> issue_data.description,
                       priority |-> issue_data.priority,
                       cached_at |-> now]
             pc2 == [pc EXCEPT !["issues"] = @ @@ (issue_id :> entry)]
         IN  [permanent_cache |-> pc2, cache_file |-> save_cache(pc2, mc, file, now, io)]
    ELSE [permanent_cache |-> pc, cache_file |-> file]

\* the key of a project's issue list in the session cache
cache_key(project_id) == "issues_" \o project_id

\* get_session_issues with the age compared by <= instead of <
get_session_issues_inclusive(sc, project_id, now) ==
    LET cached_data == Get(sc, cache_key(project_id))
    IN  IF cached_data.some /\ now - cached_data.val.timestamp <= SESSION_TTL
        THEN Some(cached_data.val.issues)
        ELSE None

\* get_session_issues: the cached list while it is younger than 5 minutes
get_session_issues(sc, project_id, now) ==
    LET cached_data == Get(sc, cache_key(project_id))
    IN  IF cached_data.some /\ now - cached_data.val.timestamp < SESSION_TTL
        THEN Some(cached_data.val.issues)
        ELSE None

\* the loop of cache_session_issues ending at the first write that fails
RECURSIVE cache_each_abort(_, _, _, _, _, _, _)
cache_each_abort(pc, mc, file, issues, i, now, ios) ==
    IF i > Len(issues) THEN [permanent_cache |-> pc, cache_file |-> file]
    ELSE IF Truthy(issues[i].id)
         THEN LET r == cache_issue(pc, mc, file, issues[i].id, issues[i], now, ios[i])
              IN  IF issues[i].id \notin DOMAIN pc["issues"] /\ ios[i] # "ok"
                  THEN [permanent_cache |-> pc, cache_file |-> r.cache_file]
                  ELSE cache_each_abort(r.permanent_cache, mc, r.cache_file, issues,
                                        i + 1, now, ios)
         ELSE cache_each_abort(pc, mc, file, issues, i + 1, now, ios)

\* the loop of cache_session_issues leaving after the first issue
cache_each_first(pc, mc, file, issues, i, now, ios) ==
    IF i = 1 /\ Len(issues) >= 1 /\ Truthy(issues[1].id)
    THEN cache_issue(pc, mc, file, issues[1].id, issues[1], now, ios[1])
    ELSE [permanent_cache |-> pc, cache_file |-> file]

\* the loop of cache_session_issues over issues[i..]
RECURSIVE cache_each(_, _, _, _, _, _, _)
cache_each(pc, mc, file, issues, i, now, ios) ==
    IF i > Len(issues) THEN [permanent_cache |-> pc, cache_file |-> file]
    ELSE IF Truthy(issues[i].id)
         THEN LET r == cache_issue(pc, mc, file, issues[i].id, issues[i], now, ios[i])
              IN  cache_each(r.permanent_cache, mc, r.cache_file, issues, i + 1, now, ios)
         ELSE cache_each(pc, mc, file, issues, i + 1, now, ios)

\* cache_session_issues keeping a list that is already cached (setdefault)
cache_session_issues_keep(sc, pc, mc, file, project_id, issues, now, ios) ==
    LET sc2 == [k \in DOMAIN sc \cup {cache_key(project_id)} |->
                   IF k \in DOMAIN sc THEN sc[k]
                   ELSE [issues |-> issues, timestamp |-> now]]
        r == cache_each(pc, mc, file, issues, 1, now, ios)
    IN  [session_cache |-> sc2, permanent_cache |-> r.permanent_cache, cache_file |-> r.cache_file]

\* cache_session_issues: store the list, then cache every issue that has an id
cache_session_issues(sc, pc, mc, file, project_id, issues, now, ios) ==
    LET sc2 == [k \in DOMAIN sc \cup {cache_key(project_id)} |->
                   IF k = cache_key(project_id)
                   THEN [issues |-> issues, timestamp |-> now]
                   ELSE sc[k]]
        r == cache_each(pc, mc, file, issues, 1, now, ios)
    IN  [session_cache |-> sc2, permanent_cache |-> r.permanent_cache, cache_file |-> r.cache_file]

\* invalidate_session_cache that only prints
invalidate_session_cache_noop(sc, project_id) == sc

\* invalidate_session_cache clearing the whole session cache
invalidate_session_cache_all(sc, project_id) ==
    IF cache_key(project_id) \in DOMAIN sc THEN EmptyDict ELSE sc

\* invalidate_session_cache
invalidate_session_cache(sc, project_id) ==
    IF cache_key(project_id) \in DOMAIN sc
    THEN [k \in DOMAIN sc \ {cache_key(project_id)} |-> sc[k]]
    ELSE sc

\* track_api_call without the clean-up of old timestamps
track_api_call_noprune(count, timestamps, now) ==
    LET kept == Append(timestamps, now)
    IN  [api_call_count |-> count + 1,
         api_call_timestamps |-> kept,
         warned |-> Len(kept) > WARN_THRESHOLD,
         ret |-> Len(kept)]

\* track_api_call enforcing the limit: at 1500 calls in the window the call
\* is refused instead of recorded
track_api_call_enforced(count, timestamps, now) ==
    LET one_hour_ago == now - RATE_WINDOW
        pruned == SelectSeq(timestamps, LAMBDA t : t > one_hour_ago)
    IN  IF Len(pruned) >= RATE_LIMIT
        THEN [api_call_count |-> count, api_call_timestamps |-> pruned,
              warned |-> TRUE, ret |-> Len(pruned)]
        ELSE [api_call_count |-> count + 1,
              api_call_timestamps |-> Append(pruned, now),
              warned |-> Len(pruned) + 1 > WARN_THRESHOLD,
              ret |-> Len(pruned) + 1]

\* track_api_call: count the call, append its time, drop the times of an
\* hour ago and before, warn above 1200, return the size of the window
track_api_call(count, timestamps, now) ==
    LET one_hour_ago == now - RATE_WINDOW
        kept == SelectSeq(Append(timestamps, now), LAMBDA t : t > one_hour_ago)
    IN  [api_call_count |-> count + 1,
         api_call_timestamps |-> kept,
         warned |-> Len(kept) > WARN_THRESHOLD,
         ret |-> Len(kept)]

\* get_api_stats; percentage_used is (calls_last_hour / 1500) * 100, kept as
\* a fraction
get_api_stats(count, timestamps, pc) ==
    LET calls_last_hour == Len(timestamps)
    IN  [total_calls_session |-> count,
         calls_last_hour |-> calls_last_hour,
         rate_limit |-> RATE_LIMIT,
         percentage_used |-> [num |-> calls_last_hour * 100, den |-> RATE_LIMIT],
         cached_issues |-> PyLen(pc["issues"])]

\* the counters st after n more track_api_call at clock 0 (split in halves to
\* keep the evaluation shallow)
RECURSIVE track_n_calls(_, _)
track_n_calls(st, n) ==
    IF n = 0 THEN st
    ELSE IF n = 1 THEN LET r == track_api_call(st.api_call_count, st.api_call_timestamps, 0)
                       IN  [api_call_count |-> r.api_call_count,
                            api_call_timestamps |-> r.api_call_timestamps]
    ELSE LET half == track_n_calls(st, n \div 2)
         IN  \* the test makes TLC evaluate the first half before the second
             IF half.api_call_count >= n \div 2
             THEN track_n_calls(half, n - (n \div 2))
             ELSE half

\* the counters of a new cache after n track_api_call at clock 0
after_calls(n) == track_n_calls([api_call_count |-> 0, api_call_timestamps |-> <<>>], n)

----------------------------------------------------------------------------
(* CachedLinearClient: what each wrapper does with the cache. track says    *)
(* whether it calls track_api_call, remote whether it reaches the place of   *)
(* the Linear API call.                                                      *)

\* list_issues: a non-empty fresh cached list is filtered and returned
list_issues(sc, project_id, status, now) ==
    LET cached_issues == get_session_issues(sc, project_id, now)
    IN  IF cached_issues.some /\ Len(cached_issues.val) > 0
        THEN [track |-> FALSE, remote |-> FALSE,
              ret |-> IF Truthy(status)
                      THEN SelectSeq(cached_issues.val, LAMBDA i : i.state = status)
                      ELSE cached_issues.val]
        ELSE [track |-> TRUE, remote |-> TRUE, ret |-> <<>>]

\* get_issue reaching the API on a miss without track_api_call
get_issue_untracked(pc, issue_id) ==
    LET cached == get_cached_issue(pc, issue_id)
    IN  IF cached.some
        THEN [track |-> FALSE, remote |-> FALSE, ret |-> cached]
        ELSE [track |-> FALSE, remote |-> TRUE, ret |-> None]

\* get_issue: the permanent entry, or None after the API point
get_issue(pc, issue_id) ==
    LET cached == get_cached_issue(pc, issue_id)
    IN  IF cached.some
        THEN [track |-> FALSE, remote |-> FALSE, ret |-> cached]
        ELSE [track |-> TRUE, remote |-> TRUE, ret |-> None]

\* update_issue: the invalidation of the session cache is commented out
update_issue(sc, issue_id) ==
    [track |-> TRUE, remote |-> TRUE, session_cache |-> sc]

\* create_comment
create_comment(issue_id) == [track |-> TRUE, remote |-> TRUE]

----------------------------------------------------------------------------
(* State after LinearCache(project_dir) on a directory without a cache file *)

\* a call: its name, its key argument (issue or project id), its other
\* argument, what it returned, the message it printed or the exception it
\* raised, and the clock
Call(op, key, arg, ret, out, at) ==
    [op |-> op, key |-> key, arg |-> arg, ret |-> ret, out |-> out, at |-> at]

NoCall == Call("none", "", None, None, "", 0)

\* the cache after construction
InitCache ==
    /\ clock = 0
    /\ cache_file = NoFile
    /\ permanent_cache = [issues |-> EmptyDict]
    /\ metadata_cache = EmptyDict
    /\ session_cache = EmptyDict
    /\ api_call_count = 0
    /\ api_call_timestamps = <<>>
    /\ last = NoCall
    /\ first_put = EmptyDict
    /\ last_put = EmptyDict
    /\ calls = <<>>
    /\ api_reached = 0

\* the integration after construction on a directory without a project file
InitIntegration ==
    /\ project_data = EmptyDict
    /\ linear_marker = FALSE
    /\ project_file_data = None
    /\ all_issues = <<>>

\* the values of an environment variable: unset, empty, or set
EnvValues == {None, Some(""), Some("secret")}

\* the orchestrator before it is started
InitOrchestrator ==
    /\ max_iterations = None
    /\ auto_push = TRUE
    /\ loop_pc = "idle"
    /\ iteration = 0
    /\ is_first_run = TRUE
    /\ agent_status = NoneStr
    /\ started = <<>>
    /\ slept = <<>>

\* the orchestrator before it is started, in an environment with both
\* variables set
InitIdle ==
    /\ InitOrchestrator
    /\ environ = [CLAUDE_CODE_OAUTH_TOKEN |-> Some("secret"),
                  LINEAR_API_KEY |-> Some("secret")]

Init == InitCache /\ InitIntegration /\ InitIdle

loop_vars == <<environ, max_iterations, auto_push, loop_pc, iteration, is_first_run, agent_status, started, slept>>
progress_vars == <<project_data, linear_marker, project_file_data, all_issues>>
other_vars == <<progress_vars, loop_vars>>
rate_vars == <<api_call_count, api_call_timestamps, calls, api_reached>>
tier_vars == <<cache_file, permanent_cache, metadata_cache, session_cache, first_put, last_put>>

\* time passes
Tick(d, max) ==
    /\ clock + d <= max
    /\ clock' = clock + d
    /\ last' = NoCall
    /\ UNCHANGED <<other_vars, tier_vars, rate_vars>>

\* history of the first cache_issue per id, for the ids of issues[i..] that are cached
RECURSIVE NoteFirstPuts(_, _, _)
NoteFirstPuts(fp, issues, i) ==
    IF i > Len(issues) THEN fp
    ELSE IF Truthy(issues[i].id) /\ issues[i].id \notin DOMAIN fp
         THEN NoteFirstPuts(fp @@ (issues[i].id :> issues[i]), issues, i + 1)
         ELSE NoteFirstPuts(fp, issues, i + 1)

\* whether a save_cache of the loop of cache_session_issues fails: an issue
\* with an id not yet cached, not listed before, whose write fails
SaveFailed(pc, issues, ios) ==
    \E i \in 1..Len(issues) :
        /\ Truthy(issues[i].id)
        /\ issues[i].id \notin DOMAIN pc["issues"]
        /\ \A j \in 1..(i - 1) : issues[j].id # issues[i].id
        /\ ios[i] # "ok"

\* cache.get_cached_issue(issue_id)
GetPermanent(issue_id) ==
    /\ last' = IF get_cached_issue_raises(permanent_cache) = ""
               THEN Call("get_permanent", issue_id, None,
                         get_cached_issue(permanent_cache, issue_id), "", clock)
               ELSE Call("get_permanent", issue_id, None, None,
                         get_cached_issue_raises(permanent_cache), clock)
    /\ UNCHANGED <<other_vars, clock, tier_vars, rate_vars>>

\* cache.cache_issue(issue_data.id, issue_data)
PutPermanent(issue_data, io) ==
    LET r == cache_issue(permanent_cache, metadata_cache, cache_file,
                         issue_data.id, issue_data, clock, io)
    IN  IF cache_issue_raises(permanent_cache) # ""
        THEN /\ last' = Call("put_permanent", issue_data.id, Some(issue_data), None,
                             cache_issue_raises(permanent_cache), clock)
             /\ UNCHANGED <<other_vars, clock, tier_vars, rate_vars>>
        ELSE /\ permanent_cache' = r.permanent_cache
             /\ cache_file' = r.cache_file
             /\ first_put' = IF issue_data.id \in DOMAIN first_put THEN first_put
                             ELSE first_put @@ (issue_data.id :> issue_data)
             /\ last' = Call("put_permanent", issue_data.id, Some(issue_data), None,
                             IF /\ issue_data.id \notin DOMAIN permanent_cache["issues"]
                                /\ io # "ok"
                             THEN "Failed to save cache" ELSE "", clock)
             /\ UNCHANGED <<other_vars, clock, metadata_cache, session_cache, last_put,
                            rate_vars>>

\* cache.get_session_issues(project_id)
GetSession(project_id) ==
    /\ LET r == get_session_issues(session_cache, project_id, clock)
       IN  last' = Call("get_session", project_id, None, r,
                        IF r.some THEN "using cached issue list" ELSE "", clock)
    /\ UNCHANGED <<other_vars, clock, tier_vars, rate_vars>>

\* cache.cache_session_issues(project_id, issues)
PutSession(project_id, issues, ios) ==
    LET r == cache_session_issues(session_cache, permanent_cache, metadata_cache,
                                  cache_file, project_id, issues, clock, ios)
    IN  /\ session_cache' = r.session_cache
        /\ permanent_cache' = r.permanent_cache
        /\ cache_file' = r.cache_file
        /\ first_put' = NoteFirstPuts(first_put, issues, 1)
        /\ last_put' = [k \in DOMAIN last_put \cup {project_id} |->
                           IF k = project_id
                           THEN [valid |-> TRUE, issues |-> issues, at |-> clock]
                           ELSE last_put[k]]
        /\ last' = Call("put_session", project_id, Some(issues), None,
                        IF SaveFailed(permanent_cache, issues, ios)
                        THEN "Failed to save cache" ELSE "", clock)
        /\ UNCHANGED <<other_vars, clock, metadata_cache, rate_vars>>

\* cache.invalidate_session_cache(project_id)
InvalidateSession(project_id) ==
    /\ session_cache' = invalidate_session_cache(session_cache, project_id)
    /\ last_put' = [k \in DOMAIN last_put |->
                       IF k = project_id THEN [valid |-> FALSE] ELSE last_put[k]]
    /\ last' = Call("invalidate_session", project_id, None, None,
                     IF cache_key(project_id) \in DOMAIN session_cache
                     THEN "session cache invalidated" ELSE "", clock)
    /\ UNCHANGED <<other_vars, clock, cache_file, permanent_cache, metadata_cache, first_put, rate_vars>>

\* the tiers of one project, with every write of the cache file succeeding
TickCache == \E d \in {150} : Tick(d, MaxClock)
DoGetPermanent == \E id \in IssueIds : GetPermanent(id)
DoPutPermanent == \E issue \in Issues : PutPermanent(issue, "ok")
DoGetSession == \E p \in {"P"} : GetSession(p)
DoPutSession == \E p \in {"P"}, issues \in IssueLists :
                    PutSession(p, issues, [i \in 1..Len(issues) |-> "ok"])
DoInvalidateSession == \E p \in {"P"} : InvalidateSession(p)

NextCache ==
    \/ TickCache
    \/ DoGetPermanent
    \/ DoPutPermanent
    \/ DoGetSession
    \/ DoPutSession
    \/ DoInvalidateSession

SpecCache == Init /\ [][NextCache]_vars

----------------------------------------------------------------------------
(* Properties of the cache tiers, checked under SpecCache *)

SameFields(entry, issue_data) ==
    /\ entry.title = issue_data.title
    /\ entry.description = issue_data.description
    /\ entry.priority = issue_data.priority

\* C1: the permanent tier is write-once: for every id that was ever handed
\* to cache_issue, get_cached_issue returns the title, description and
\* priority of the first cache_issue for that id, whatever was put, got or
\* invalidated afterwards.
C1_WriteOnce ==
    \A id \in DOMAIN first_put :
        LET cached == get_cached_issue(permanent_cache, id)
        IN  cached.some /\ SameFields(cached.val, first_put[id])

\* C1 happens: issue A was first cached as IssueA1, a later
\* cache_issue("A", IssueA2) has just returned, and the entry is IssueA1's.
C1_Witness ==
    /\ last.op = "put_permanent" /\ last.key = "A" /\ last.arg = Some(IssueA2)
    /\ first_put["A"] = IssueA1
    /\ get_cached_issue(permanent_cache, "A").val.title = "t1"

\* what get_session_issues has to return at time now, from the history
Expected(project_id, now) ==
    IF /\ project_id \in DOMAIN last_put
       /\ last_put[project_id].valid
       /\ now - last_put[project_id].at < SESSION_TTL
    THEN Some(last_put[project_id].issues)
    ELSE None

\* C2: get_session_issues(P) returns the list of the most recent
\* cache_session_issues(P, ...) exactly when that call happened less than 300
\* seconds before and no invalidation came in between, and None otherwise.
C2_SessionFreshness ==
    last.op = "get_session" => last.ret = Expected(last.key, last.at)

\* C2 happens: a list was cached 300 seconds or more before the
\* get_session_issues that has just returned None.
C2_Witness ==
    /\ last.op = "get_session" /\ last.ret = None
    /\ last.key \in DOMAIN last_put
    /\ last_put[last.key].valid
    /\ last.at - last_put[last.key].at >= SESSION_TTL
    /\ Len(last_put[last.key].issues) > 0

\* C3: after invalidate_session_cache(P), and until the next
\* cache_session_issues(P, ...), get_session_issues(P) returns None now and
\* at any later time.
C3_InvalidatedAbsent ==
    \A p \in DOMAIN last_put :
        ~last_put[p].valid =>
            /\ \A d \in {0, 1, SESSION_TTL - 1, SESSION_TTL} :
                   get_session_issues(session_cache, p, clock + d) = None
            /\ (last.op = "get_session" /\ last.key = p) => last.ret = None

\* C3 happens: a cached list was invalidated and the get_session_issues
\* that has just returned found nothing, at the clock of the put.
C3_Witness ==
    /\ last.op = "get_session" /\ last.ret = None
    /\ last.key \in DOMAIN last_put
    /\ ~last_put[last.key].valid
    /\ clock = 0

\* the issues of a list that have a (non-empty) id are all in the permanent tier
AllCached(issues, pc) ==
    \A i \in 1..Len(issues) :
        Truthy(issues[i].id) => get_cached_issue(pc, issues[i].id).some

\* C6 as claimed: whenever get_session_issues returns a list, every item of
\* the list has a permanent entry under its id.
C6_EveryItemCached ==
    (last.op = "get_session" /\ last.ret.some) =>
        \A i \in 1..Len(last.ret.val) :
            get_cached_issue(permanent_cache, last.ret.val[i].id).some

\* C6 amended: whenever get_session_issues returns a list, every item of the
\* list that has a non-empty id has a permanent entry; the call itself leaves
\* both tiers as they were (the entries come from cache_session_issues).
C6_HitItemsWithIdCached ==
    [][last'.op = "get_session" =>
          /\ UNCHANGED <<permanent_cache, session_cache, cache_file>>
          /\ last'.ret.some => AllCached(last'.ret.val, permanent_cache')]_vars

\* C6 happens: get_session_issues has just returned a list of two issues
\* with different ids.
C6_Witness ==
    /\ last.op = "get_session"
    /\ last.ret = Some(<<IssueA1, IssueB>>)
    /\ {"A", "B"} \subseteq DOMAIN permanent_cache["issues"]

\* C7 as claimed: cache_session_issues(P, items) leaves the entry of P equal
\* to items with the current timestamp, and every item of items with a
\* permanent entry under its id.
C7_EveryItemPut ==
    last.op = "put_session" =>
        /\ Get(session_cache, cache_key(last.key)) =
               Some([issues |-> last.arg.val, timestamp |-> last.at])
        /\ \A i \in 1..Len(last.arg.val) :
               get_cached_issue(permanent_cache, last.arg.val[i].id).some

\* C7 amended: cache_session_issues(P, items) replaces any entry of P by
\* items with the current timestamp, and afterwards every item of items that
\* has a non-empty id has a permanent entry.
C7_PutSessionReplaces ==
    last.op = "put_session" =>
        /\ Get(session_cache, cache_key(last.key)) =
               Some([issues |-> last.arg.val, timestamp |-> last.at])
        /\ AllCached(last.arg.val, permanent_cache)

\* C7 happens: at clock 300 a list with an issue without id and issue B was
\* put over the list cached for the project before (issue A came in earlier).
C7_Witness ==
    /\ last.op = "put_session" /\ last.arg = Some(<<IssueNoId, IssueB>>)
    /\ last.at = SESSION_TTL
    /\ "A" \in DOMAIN first_put
    /\ get_cached_issue(permanent_cache, "B").some
    /\ ~get_cached_issue(permanent_cache, "").some


----------------------------------------------------------------------------
(* The rate window *)

\* track_api_call calls are explored up to MaxCalls beyond the burst
CallsLeft == \E n \in BurstSizes : api_call_count >= n /\ api_call_count < n + MaxCalls

\* construction followed by a burst of n track_api_call at clock 0
InitBurst ==
    \E n \in BurstSizes :
        /\ clock = 0
        /\ cache_file = NoFile
        /\ permanent_cache = [issues |-> EmptyDict]
        /\ metadata_cache = EmptyDict
        /\ session_cache = EmptyDict
        /\ api_call_count = after_calls(n).api_call_count
        /\ api_call_timestamps = after_calls(n).api_call_timestamps
        /\ last = NoCall
        /\ first_put = EmptyDict
        /\ last_put = EmptyDict
        /\ calls = [i \in 1..n |-> 0]
        /\ api_reached = 0
        /\ InitIntegration
        /\ InitIdle

\* cache.track_api_call()
RecordCall ==
    /\ CallsLeft
    /\ LET r == track_api_call(api_call_count, api_call_timestamps, clock)
       IN  /\ api_call_count' = r.api_call_count
           /\ api_call_timestamps' = r.api_call_timestamps
           /\ last' = Call("record_call", "", None, Some(r.ret),
                            IF r.warned THEN "warning" ELSE "", clock)
    /\ calls' = Append(calls, clock)
    /\ UNCHANGED <<other_vars, clock, tier_vars, api_reached>>

\* cache.get_api_stats()
Stats ==
    /\ last' = IF get_api_stats_raises(permanent_cache) = ""
               THEN Call("stats", "", None,
                         Some(get_api_stats(api_call_count, api_call_timestamps,
                                            permanent_cache)),
                         "", clock)
               ELSE Call("stats", "", None, None,
                         get_api_stats_raises(permanent_cache), clock)
    /\ UNCHANGED <<other_vars, clock, tier_vars, rate_vars>>

\* the orchestrator's check after a session (autonomous_agent_optimized.py)
CheckApiUsage ==
    /\ LET api_stats == get_api_stats(api_call_count, api_call_timestamps, permanent_cache)
       IN  last' = Call("check_api_usage", "", None, Some(api_stats),
                        IF api_stats.calls_last_hour > WARN_THRESHOLD THEN "warning" ELSE "",
                        clock)
    /\ UNCHANGED <<other_vars, clock, tier_vars, rate_vars>>

TickRate == \E d \in {1800} : Tick(d, MaxRateClock)

NextRate ==
    \/ TickRate
    \/ RecordCall
    \/ Stats
    \/ CheckApiUsage

\* the rate window of a new cache
SpecRate == Init /\ [][NextRate]_vars

\* the rate window around the warning threshold and the limit
SpecBudget == InitBurst /\ [][NextRate]_vars

----------------------------------------------------------------------------
(* Properties of the rate window, checked under SpecRate and SpecBudget *)

IsNonDecreasing(seq) == \A i \in 1..(Len(seq) - 1) : seq[i] <= seq[i + 1]

\* the calls of the history that were recorded less than 3600 seconds before now
WithinWindow(history, now) == SelectSeq(history, LAMBDA t : now - t < RATE_WINDOW)

C9_StatsCountsLastHour ==
    last.op = "stats" =>
        last.ret.val.calls_last_hour = Len(WithinWindow(calls, last.at))

\* C10: the budget is advisory. track_api_call always records the call: the
\* total grows with every call, the call is in the window and the size of the
\* window is returned, also beyond 1500 calls; it prints the warning exactly
\* when the window holds more than 1200 calls, and so does the orchestrator's
\* check of get_api_stats.
C10_BudgetAdvisory ==
    /\ api_call_count = Len(calls)
    /\ last.op = "record_call" =>
           /\ last.ret = Some(Len(WithinWindow(calls, last.at)))
           /\ last.ret.val >= 1
           /\ (last.out = "warning") <=> (last.ret.val > WARN_THRESHOLD)
    /\ last.op = "check_api_usage" =>
           (last.out = "warning") <=> (last.ret.val.calls_last_hour > WARN_THRESHOLD)

\* C10 happens: track_api_call has just recorded a call beyond the limit of
\* 1500, returned the count and printed the warning.
C10_Witness ==
    /\ last.op = "record_call"
    /\ last.ret.val > RATE_LIMIT
    /\ last.out = "warning"
    /\ api_call_count > RATE_LIMIT


----------------------------------------------------------------------------
(* The wrapper *)

\* the effect of a wrapper on the rate window
Track(r) ==
    IF r.track
    THEN LET t == track_api_call(api_call_count, api_call_timestamps, clock)
         IN  /\ api_call_count' = t.api_call_count
             /\ api_call_timestamps' = t.api_call_timestamps
             /\ calls' = Append(calls, clock)
    ELSE UNCHANGED <<api_call_count, api_call_timestamps, calls>>

Reach(r) == api_reached' = IF r.remote THEN api_reached + 1 ELSE api_reached

\* client.list_issues(agent_client, project_id, status)
ListIssues(project_id, status) ==
    LET r == list_issues(session_cache, project_id, status, clock)
    IN  /\ r.track => CallsLeft
        /\ Track(r)
        /\ Reach(r)
        /\ last' = Call("list_issues", project_id, Some(status), Some(r.ret), "", clock)
        /\ UNCHANGED <<other_vars, clock, tier_vars>>

\* client.get_issue(agent_client, issue_id)
GetIssue(issue_id) ==
    LET r == get_issue(permanent_cache, issue_id)
    IN  /\ r.track => CallsLeft
        /\ Track(r)
        /\ Reach(r)
        /\ last' = Call("get_issue", issue_id, None, r.ret, "", clock)
        /\ UNCHANGED <<other_vars, clock, tier_vars>>

\* client.update_issue(agent_client, issue_id, **kwargs)
UpdateIssue(issue_id) ==
    LET r == update_issue(session_cache, issue_id)
    IN  /\ r.track => CallsLeft
        /\ Track(r)
        /\ Reach(r)
        /\ session_cache' = r.session_cache
        /\ last_put' = [k \in DOMAIN last_put |->
                           IF cache_key(k) \in DOMAIN r.session_cache THEN last_put[k]
                           ELSE [valid |-> FALSE]]
        /\ last' = Call("update_issue", issue_id, None, None, "", clock)
        /\ UNCHANGED <<other_vars, clock, cache_file, permanent_cache, metadata_cache, first_put>>

\* client.create_comment(agent_client, issue_id, body)
CreateComment(issue_id) ==
    LET r == create_comment(issue_id)
    IN  /\ r.track => CallsLeft
        /\ Track(r)
        /\ Reach(r)
        /\ last' = Call("create_comment", issue_id, None, None, "", clock)
        /\ UNCHANGED <<other_vars, clock, tier_vars>>

TickClient == \E d \in {3600} : Tick(d, MaxClientClock)
DoListIssues == \E p \in {"P"}, status \in Statuses : ListIssues(p, status)
DoGetIssue == \E id \in {"A", "B"} : GetIssue(id)
DoUpdateIssue == \E id \in {"A", "B"} : UpdateIssue(id)
DoCreateComment == \E id \in {"A", "B"} : CreateComment(id)
\* the issue list fetched from Linear is put into the cache
DoFillSession == \E p \in {"P"}, issues \in IssueLists :
                     PutSession(p, issues, [i \in 1..Len(issues) |-> "ok"])

NextClient ==
    \/ TickClient
    \/ DoListIssues
    \/ DoGetIssue
    \/ DoUpdateIssue
    \/ DoCreateComment
    \/ DoFillSession

SpecClient == Init /\ [][NextClient]_vars

----------------------------------------------------------------------------
(* Properties of the wrapper, checked under SpecClient *)

\* the ids of the issues in the cached list of a project
CachedIds(sc, project_id) ==
    LET cached_data == Get(sc, cache_key(project_id))
    IN  IF cached_data.some
        THEN {cached_data.val.issues[i].id : i \in 1..Len(cached_data.val.issues)}
        ELSE {}

\* C4 as claimed: when update_issue has returned, no project's session entry
\* holds the updated issue any more.
C4_UpdateInvalidates ==
    last.op = "update_issue" =>
        \A p \in ProjectIds : last.key \notin CachedIds(session_cache, p)

\* the wrapper call of this step has to go to the Linear API
GoesToApi ==
    \/ last'.op \in {"update_issue", "create_comment"}
    \/ /\ last'.op = "list_issues"
       /\ get_session_issues(session_cache, last'.key, clock) = None
    \/ /\ last'.op = "get_issue"
       /\ get_cached_issue(permanent_cache, last'.key) = None

----------------------------------------------------------------------------
(* The progress engine: EnhancedLinearIntegration (linear_enhanced.py)     *)
(*                                                                         *)
(* Floats are kept exact: a percentage rounded to one decimal is an        *)
(* integer number of tenths, a velocity rounded to two decimals an integer *)
(* number of hundredths, an unrounded quotient a pair num/den.             *)

MaxItems == 3      \* issue lists are explored up to this length
MaxSessions == 3   \* update_session_history calls explored per run

\* the ordered dict MILESTONES: key and target_percentage
MILESTONES ==
    << [key |-> "setup",    name |-> "Project Setup",          target_percentage |-> 10],
       [key |-> "core",     name |-> "Core Features",          target_percentage |-> 40],
       [key |-> "features", name |-> "Feature Implementation", target_percentage |-> 75],
       [key |-> "polish",   name |-> "Polish & Refinement",    target_percentage |-> 95],
       [key |-> "complete", name |-> "Project Complete",       target_percentage |-> 100] >>

\* issues as Linear returns them: a state with a name, a state without a
\* name, or no state
ItemTodo == [id |-> "t", state |-> [name |-> "Todo"]]
ItemInProgress == [id |-> "p", state |-> [name |-> "In Progress"]]
ItemDone == [id |-> "d", state |-> [name |-> "Done"]]
ItemCanceled == [id |-> "c", state |-> [name |-> "Canceled"]]
ItemNoState == [id |-> "n"]
Items == {ItemTodo, ItemInProgress, ItemDone, ItemCanceled, ItemNoState}

\* ten issues, four of them Done and two In Progress
TenItems ==
    [i \in 1..10 |-> IF i <= 4 THEN ItemDone ELSE IF i <= 6 THEN ItemInProgress ELSE ItemTodo]

ItemLists == UNION {[1..n -> Items] : n \in 0..MaxItems} \cup {TenItems}

\* i.get('state', {}).get('name')
state_name(i) ==
    IF "state" \in DOMAIN i
    THEN IF "name" \in DOMAIN i.state THEN i.state.name ELSE NoneStr
    ELSE NoneStr

\* count_state counting the distinct issues instead of the list's positions
count_state_distinct(issues, name) ==
    Cardinality({issues[i] : i \in {j \in 1..Len(issues) : state_name(issues[j]) = name}})

\* sum(1 for i in issues if i.get('state', {}).get('name') == name)
count_state(issues, name) ==
    Cardinality({i \in 1..Len(issues) : state_name(issues[i]) = name})

\* round(num / den, n) in units of 10^-n, for an exact quotient: to the
\* nearest unit, a tie to the even one
RoundHalfEven(num, den) ==
    LET q == num \div den
        r == num % den
    IN IF 2 * r > den \/ (2 * r = den /\ q % 2 = 1) THEN q + 1 ELSE q

\* an unrounded quotient num / den, den > 0
Ratio(n, d) == [num |-> n, den |-> d]

\* calc_progress_percentage with an In Progress issue weighing 1.25
calc_progress_percentage_heavy(completed, in_progress, total) ==
    IF total > 0
    THEN RoundHalfEven((4 * completed + 5 * in_progress) * 1000, 4 * total)
    ELSE 0

\* round(((completed + 0.25 * in_progress) / total * 100) if total > 0 else 0, 1),
\* in tenths
calc_progress_percentage(completed, in_progress, total) ==
    IF total > 0
    THEN RoundHalfEven((4 * completed + in_progress) * 1000, 4 * total)
    ELSE 0

\* calc_velocity taking zero sessions for one
calc_velocity_at_least_one(completed, pd) ==
    LET stored == IF "session_count" \in DOMAIN pd THEN pd.session_count ELSE 1
        sessions == IF stored > 1 THEN stored ELSE 1
    IN Ratio(completed, sessions)

\* sessions = self.project_data.get('session_count', 1)
\* velocity = completed / sessions if sessions > 0 else 0
calc_velocity(completed, pd) ==
    LET sessions == IF "session_count" \in DOMAIN pd THEN pd.session_count ELSE 1
    IN IF sessions > 0 THEN Ratio(completed, sessions) ELSE Ratio(0, 1)

\* calc_estimated_completion rendering a velocity of zero as no days left
calc_estimated_completion_zero_days(todo, in_progress, velocity) ==
    LET remaining_issues == todo + in_progress
    IN IF velocity.num > 0
       THEN ToString((remaining_issues * velocity.den) \div (2 * velocity.num)) \o " days"
       ELSE "0 days"

\* remaining_issues / velocity * 0.5, truncated by int() and rendered by the
\* f-string, or "Unknown"
calc_estimated_completion(todo, in_progress, velocity) ==
    LET remaining_issues == todo + in_progress
    IN IF velocity.num > 0
       THEN ToString((remaining_issues * velocity.den) \div (2 * velocity.num)) \o " days"
       ELSE "Unknown"

\* calculate_progress with todo counted by its state name
calculate_progress_todo_by_name(pd, issues) ==
    LET total == Len(issues)
        completed == count_state(issues, "Done")
        in_progress == count_state(issues, "In Progress")
        todo == count_state(issues, "Todo")
        velocity == calc_velocity(completed, pd)
    IN [total_issues |-> total,
        completed |-> completed,
        in_progress |-> in_progress,
        todo |-> todo,
        progress_percentage |-> calc_progress_percentage(completed, in_progress, total),
        velocity |-> RoundHalfEven(velocity.num * 100, velocity.den),
        estimated_completion |-> calc_estimated_completion(todo, in_progress, velocity)]

\* integration.calculate_progress(issues), with self.project_data = pd
calculate_progress(pd, issues) ==
    LET total == Len(issues)
        completed == count_state(issues, "Done")
        in_progress == count_state(issues, "In Progress")
        todo == total - completed - in_progress
        velocity == calc_velocity(completed, pd)
    IN [total_issues |-> total,
        completed |-> completed,
        in_progress |-> in_progress,
        todo |-> todo,
        progress_percentage |-> calc_progress_percentage(completed, in_progress, total),
        velocity |-> RoundHalfEven(velocity.num * 100, velocity.den),
        estimated_completion |-> calc_estimated_completion(todo, in_progress, velocity)]

\* a milestone as determine_current_milestone returns it
milestone_of(m, target) == [key |-> m.key, name |-> m.name, target |-> target]

\* determine_current_milestone with a threshold reached counting as not passed
determine_current_milestone_inclusive(progress_percentage) ==
    LET below == {k \in 1..Len(MILESTONES) :
                      progress_percentage <= 10 * MILESTONES[k].target_percentage}
    IN IF below # {}
       THEN LET k == CHOOSE k \in below : \A j \in below : k <= j
            IN milestone_of(MILESTONES[k], MILESTONES[k].target_percentage)
       ELSE milestone_of(MILESTONES[Len(MILESTONES)], 100)

\* integration.determine_current_milestone(progress_percentage), the
\* percentage in tenths
determine_current_milestone(progress_percentage) ==
    LET below == {k \in 1..Len(MILESTONES) :
                      progress_percentage < 10 * MILESTONES[k].target_percentage}
    IN IF below # {}
       THEN LET k == CHOOSE k \in below : \A j \in below : k <= j
            IN milestone_of(MILESTONES[k], MILESTONES[k].target_percentage)
       ELSE milestone_of(MILESTONES[Len(MILESTONES)], 100)

\* determine_health_status with the at_risk rule tried first
determine_health_status_reordered(progress_percentage, velocity, errors_count) ==
    IF velocity > 30 /\ errors_count < 10
    THEN "at_risk"
    ELSE IF velocity > 80 /\ errors_count < 5 /\ progress_percentage > 200
         THEN "on_track"
         ELSE "off_track"

\* integration.determine_health_status(progress_percentage, velocity,
\* errors_count), the percentage in tenths and the velocity in hundredths
determine_health_status(progress_percentage, velocity, errors_count) ==
    IF velocity > 80 /\ errors_count < 5 /\ progress_percentage > 200
    THEN "on_track"
    ELSE IF velocity > 30 /\ errors_count < 10
         THEN "at_risk"
         ELSE "off_track"

\* d[k] = v
Put(d, k, v) == (k :> v) @@ d

\* d.get(k, default)
GetOr(d, k, default) == IF k \in DOMAIN d THEN d[k] ELSE default

\* integration.create_initializer_summary(...): the content the initializer
\* session writes to .linear_project.json
create_initializer_summary(project_id, project_name, total_issues, issues_by_priority, milestones_created, now) ==
    [initialized |-> TRUE,
     created_at |-> now,
     project_id |-> project_id,
     project_name |-> project_name,
     total_issues |-> total_issues,
     issues_by_priority |-> issues_by_priority,
     milestones_created |-> milestones_created,
     session_count |-> 0,
     milestones |-> MILESTONES,
     health_history |-> <<>>,
     velocity_history |-> <<>>]

\* integration._load_project_data(): the file's content, or {} without a file
load_project_data(project_file) ==
    IF project_file.some THEN project_file.val ELSE EmptyDict

\* integration._save_project_data(): the file's content after json.dump
save_project_data(pd) == Some(pd)

\* update_session_history keeping only the newest entry of health_history
update_session_history_latest(pd, session_summary, now) ==
    LET d1 == Put(pd, "session_history",
                  Append(GetOr(pd, "session_history", <<>>), session_summary))
        d2 == Put(d1, "session_count", Len(d1.session_history))
        d3 == Put(d2, "health_history",
                  <<[timestamp |-> now,
                     health |-> GetOr(session_summary, "health", "unknown"),
                     progress |-> GetOr(session_summary, "progress_percentage", 0)]>>)
    IN Put(d3, "velocity_history",
           Append(GetOr(d3, "velocity_history", <<>>),
                  [timestamp |-> now,
                   velocity |-> GetOr(session_summary, "velocity", 0),
                   issues_completed |-> GetOr(session_summary, "issues_completed", 0)]))

\* integration.update_session_history(session_summary): the new
\* self.project_data, which _save_project_data() then writes
update_session_history(pd, session_summary, now) ==
    LET d1 == IF "session_history" \in DOMAIN pd THEN pd
              ELSE Put(pd, "session_history", <<>>)
        d2 == Put(d1, "session_history", Append(d1.session_history, session_summary))
        d3 == Put(d2, "session_count", Len(d2.session_history))
        d4 == IF "health_history" \in DOMAIN d3 THEN d3
              ELSE Put(d3, "health_history", <<>>)
        d5 == Put(d4, "health_history",
                  Append(d4.health_history,
                         [timestamp |-> now,
                          health |-> GetOr(session_summary, "health", "unknown"),
                          progress |-> GetOr(session_summary, "progress_percentage", 0)]))
        d6 == IF "velocity_history" \in DOMAIN d5 THEN d5
              ELSE Put(d5, "velocity_history", <<>>)
    IN Put(d6, "velocity_history",
           Append(d6.velocity_history,
                  [timestamp |-> now,
                   velocity |-> GetOr(session_summary, "velocity", 0),
                   issues_completed |-> GetOr(session_summary, "issues_completed", 0)]))

\* integration.generate_session_summary(..., all_issues, session_metrics):
\* the figures the markdown is rendered from
generate_session_summary(pd, issues, session_metrics) ==
    LET progress == calculate_progress(pd, issues)
        milestone == determine_current_milestone(progress.progress_percentage)
        health == determine_health_status(progress.progress_percentage,
                                          progress.velocity,
                                          GetOr(session_metrics, "errors", 0))
    IN [progress |-> progress,
        milestone |-> milestone,
        health |-> health,
        errors |-> GetOr(session_metrics, "errors", 0)]

\* the session metrics a summary is generated with
SessionMetrics == {[errors |-> e] : e \in {0, 7}}

\* the summary of a session as it is recorded in the history
session_summary_of(pd, issues) ==
    LET s == generate_session_summary(pd, issues, [errors |-> 0])
    IN [health |-> s.health,
        progress_percentage |-> s.progress.progress_percentage,
        velocity |-> s.progress.velocity,
        issues_completed |-> s.progress.completed]

\* the integration constructed on a directory without a project file, or
\* with the file an initializer session wrote, for any list of issues
InitProgress ==
    /\ InitCache
    /\ InitIdle
    /\ all_issues \in ItemLists
    /\ \/ /\ linear_marker = FALSE
          /\ project_file_data = None
       \/ /\ linear_marker = TRUE
          /\ project_file_data =
                 Some(create_initializer_summary("P", "Project", Len(all_issues),
                                                 EmptyDict, FALSE, 0))
    /\ project_data = load_project_data(project_file_data)

\* integration.calculate_progress(all_issues)
CalculateProgress ==
    /\ last' = Call("calculate_progress", "", Some(all_issues),
                    Some(calculate_progress(project_data, all_issues)), "", clock)
    /\ UNCHANGED <<clock, tier_vars, rate_vars, progress_vars, loop_vars>>

\* integration.generate_session_summary([], [], all_issues, session_metrics)
GenerateSessionSummary(session_metrics) ==
    /\ last' = Call("generate_session_summary", "", Some(session_metrics),
                    Some(generate_session_summary(project_data, all_issues, session_metrics)),
                    "", clock)
    /\ UNCHANGED <<clock, tier_vars, rate_vars, progress_vars, loop_vars>>

\* integration.update_session_history(session_summary), and its save
UpdateSessionHistory(session_summary) ==
    /\ Len(GetOr(project_data, "session_history", <<>>)) < MaxSessions
    /\ project_data' = update_session_history(project_data, session_summary, clock)
    /\ project_file_data' = save_project_data(project_data')
    /\ linear_marker' = TRUE
    /\ last' = Call("update_session_history", "", Some(session_summary), None, "", clock)
    /\ UNCHANGED <<clock, tier_vars, rate_vars, all_issues, loop_vars>>

DoGenerateSessionSummary == \E m \in SessionMetrics : GenerateSessionSummary(m)
DoUpdateSessionHistory == UpdateSessionHistory(session_summary_of(project_data, all_issues))

NextProgress ==
    \/ CalculateProgress
    \/ DoGenerateSessionSummary
    \/ DoUpdateSessionHistory

SpecProgress == InitProgress /\ [][NextProgress]_vars

----------------------------------------------------------------------------
(* Claims about the progress engine *)

\* the issues of a list that are neither Done nor In Progress, by what they are
NotStarted(issues) ==
    {i \in 1..Len(issues) : issues[i] \notin {ItemDone, ItemInProgress}}

\* C11: for every item list, calculate_progress returns non-negative
\* completed, in_progress and todo that add up to total, which is the length
\* of the list; todo counts exactly the items whose state is neither Done nor
\* In Progress, those with a missing or unrecognized state included.
C11_CountsPartition ==
    last.op = "calculate_progress" =>
        LET issues == last.arg.val
            r == last.ret.val
        IN /\ r.completed >= 0 /\ r.in_progress >= 0 /\ r.todo >= 0
           /\ r.completed + r.in_progress + r.todo = r.total_issues
           /\ r.total_issues = Len(issues)
           /\ r.todo = Cardinality(NotStarted(issues))

\* C11 happens: progress was calculated for a list with a Done item, an item
\* without a state and an item in an unrecognized state
C11_Witness ==
    /\ last.op = "calculate_progress"
    /\ \E i, j, k \in 1..Len(last.arg.val) :
           /\ last.arg.val[i] = ItemDone
           /\ last.arg.val[j] = ItemNoState
           /\ last.arg.val[k] = ItemCanceled
    /\ last.ret.val.todo = 2
    /\ last.ret.val.completed = 1

\* a list with its item k moved one step: from In Progress to Done, from
\* anything else that is not Done to In Progress
Advance(issues, k) ==
    [issues EXCEPT ![k] = IF @ = ItemInProgress THEN ItemDone ELSE ItemInProgress]

\* C12: progress_percentage is 100 * (completed + 0.25 * in_progress) / total
\* (to the one decimal it is rounded to), exactly 0 when the list is empty,
\* always within [0, 100], and it does not decrease when one item moves from
\* todo to In Progress or from In Progress to Done with every other item
\* fixed.
C12_ProgressPercentage ==
    last.op = "calculate_progress" =>
        LET issues == last.arg.val
            r == last.ret.val
            exact == (4 * r.completed + r.in_progress) * 1000
            off == r.progress_percentage * 4 * r.total_issues - exact
        IN /\ r.total_issues = 0 => r.progress_percentage = 0
           /\ r.progress_percentage >= 0
           /\ r.progress_percentage <= 1000
           /\ 2 * off <= 4 * r.total_issues
           /\ 2 * off >= -(4 * r.total_issues)
           /\ \A k \in 1..Len(issues) :
                  issues[k] # ItemDone =>
                      calculate_progress(project_data, Advance(issues, k)).progress_percentage
                          >= r.progress_percentage

\* C12 happens: progress was calculated for one Done, one In Progress and
\* one Todo item, 41.7 percent, and for the list one step further
C12_Witness ==
    /\ last.op = "calculate_progress"
    /\ last.arg.val = <<ItemDone, ItemInProgress, ItemTodo>>
    /\ last.ret.val.progress_percentage = 417
    /\ calculate_progress(project_data, Advance(last.arg.val, 2)).progress_percentage = 667

\* the stored session_count is the number of sessions recorded by
\* update_session_history: nothing else has set it
SessionCountAsRecorded ==
    "session_count" \in DOMAIN project_data =>
        project_data.session_count = Len(GetOr(project_data, "session_history", <<>>))

\* C13 as stated: velocity is completed / max(session_count, 1), so that with
\* a stored session_count of 0 calculate_progress returns velocity ==
\* completed, and the stored session_count is left unchanged.
C13_ZeroSessionsCountAsOne ==
    last.op = "calculate_progress" =>
        /\ SessionCountAsRecorded
        /\ ("session_count" \in DOMAIN project_data /\ project_data.session_count = 0) =>
               last.ret.val.velocity = 100 * last.ret.val.completed

\* C13 amended: velocity is completed / session_count for a stored
\* session_count above 0 and completed / 1 when none is stored; with a stored
\* session_count of 0 calculate_progress returns velocity 0 and the
\* estimated completion "Unknown"; the stored session_count is left as the
\* session history made it.
C13_VelocityPerStoredSession ==
    last.op = "calculate_progress" =>
        LET r == last.ret.val
            stored == "session_count" \in DOMAIN project_data
            off(n) == r.velocity * n - 100 * r.completed
        IN /\ SessionCountAsRecorded
           /\ ~stored => r.velocity = 100 * r.completed
           /\ (stored /\ project_data.session_count = 0) =>
                  r.velocity = 0 /\ r.estimated_completion = "Unknown"
           /\ (stored /\ project_data.session_count > 0) =>
                  /\ 2 * off(project_data.session_count) <= project_data.session_count
                  /\ 2 * off(project_data.session_count) >= -project_data.session_count

\* C13 happens: progress was calculated with Done items on the project data
\* an initializer session wrote, session_count 0
C13_Witness ==
    /\ last.op = "calculate_progress"
    /\ "session_count" \in DOMAIN project_data
    /\ project_data.session_count = 0
    /\ last.ret.val.completed = 2
    /\ last.ret.val.velocity = 0

----------------------------------------------------------------------------
(* The two classifications of the progress engine, on their own *)

\* percentages, in tenths, around the milestone thresholds
Percentages == {0, 99, 100, 101, 399, 400, 401, 450, 749, 750, 751, 949, 950, 999, 1000}

\* percentages in tenths, velocities in hundredths and error counts around
\* the thresholds of the health rules
HealthPercentages == {0, 200, 201, 500, 1000}
HealthVelocities == {0, 10, 30, 31, 50, 80, 81, 100}
HealthErrors == {0, 3, 4, 5, 9, 10, 20}

\* integration.determine_current_milestone(progress_percentage)
DetermineMilestone(progress_percentage) ==
    /\ last' = Call("determine_current_milestone", "", Some(progress_percentage),
                    Some(determine_current_milestone(progress_percentage)), "", clock)
    /\ UNCHANGED <<clock, tier_vars, rate_vars, progress_vars, loop_vars>>

\* integration.determine_health_status(progress_percentage, velocity, errors_count)
DetermineHealth(progress_percentage, velocity, errors_count) ==
    /\ last' = Call("determine_health_status", "",
                    Some([errors_count |-> errors_count,
                          progress_percentage |-> progress_percentage,
                          velocity |-> velocity]),
                    Some(determine_health_status(progress_percentage, velocity, errors_count)),
                    "", clock)
    /\ UNCHANGED <<clock, tier_vars, rate_vars, progress_vars, loop_vars>>

DoDetermineMilestone == \E p \in Percentages : DetermineMilestone(p)
DoDetermineHealth ==
    \E p \in HealthPercentages, v \in HealthVelocities, e \in HealthErrors :
        DetermineHealth(p, v, e)

NextClassify ==
    \/ DoDetermineMilestone
    \/ DoDetermineHealth

SpecClassify == Init /\ [][NextClassify]_vars

\* the thresholds of the milestones in their fixed order, in percent
Thresholds ==
    << <<"setup", 10>>, <<"core", 40>>, <<"features", 75>>, <<"polish", 95>>, <<"complete", 100>> >>

\* C14: determine_current_milestone returns the first milestone, in the order
\* setup(10), core(40), features(75), polish(95), complete(100), whose
\* threshold is strictly greater than the percentage, and complete when none
\* is; a percentage equal to a threshold belongs to the next milestone (40.0
\* is features); whatever was determined before, the result is this function
\* of the percentage.
C14_FirstMilestoneAbove ==
    last.op = "determine_current_milestone" =>
        LET p == last.arg.val
            key == last.ret.val.key
            above(k) == p < 10 * Thresholds[k][2]
        IN /\ \A k \in 1..Len(Thresholds) :
                   (above(k) /\ \A j \in 1..(k - 1) : ~above(j)) => key = Thresholds[k][1]
           /\ (\A k \in 1..Len(Thresholds) : ~above(k)) => key = "complete"
           /\ p = 400 => key = "features"

\* C14 happens: the milestone of exactly 40.0 percent was determined and is
\* features
C14_Witness ==
    /\ last.op = "determine_current_milestone"
    /\ last.arg.val = 400
    /\ last.ret.val.key = "features"
    /\ last.ret.val.target = 75

\* C15: the health is on_track iff velocity > 0.8, errors < 5 and progress >
\* 20; otherwise at_risk iff velocity > 0.3 and errors < 10; otherwise
\* off_track. (50, 1.0, 0) is on_track, (50, 0.5, 3) at_risk and
\* (50, 0.1, 20) off_track; whatever was classified before, the result is
\* this function of the three arguments.
C15_HealthRules ==
    last.op = "determine_health_status" =>
        LET a == last.arg.val
            h == last.ret.val
            first == a.velocity > 80 /\ a.errors_count < 5 /\ a.progress_percentage > 200
            second == a.velocity > 30 /\ a.errors_count < 10
            case(p, v, e) == a.progress_percentage = p /\ a.velocity = v /\ a.errors_count = e
        IN /\ h = "on_track" <=> first
           /\ h = "at_risk" <=> (~first /\ second)
           /\ h = "off_track" <=> (~first /\ ~second)
           /\ case(500, 100, 0) => h = "on_track"
           /\ case(500, 50, 3) => h = "at_risk"
           /\ case(500, 10, 20) => h = "off_track"

\* C15 happens: (50, 1.0, 0), which both rules match, was classified on_track
C15_Witness ==
    /\ last.op = "determine_health_status"
    /\ last.arg.val.progress_percentage = 500
    /\ last.arg.val.velocity = 100
    /\ last.arg.val.errors_count = 0
    /\ last.ret.val = "on_track"

\* C16: estimated_completion is "Unknown" whenever the velocity is not above
\* zero, and otherwise the whole number of days
\* floor((todo + in_progress) / velocity * 0.5), which is never negative; no
\* list and no stored session count makes the computation divide by zero.
C16_EstimatedCompletion ==
    last.op = "calculate_progress" =>
        LET r == last.ret.val
            sessions == GetOr(project_data, "session_count", 1)
            moving == r.completed > 0 /\ sessions > 0
            remaining == r.todo + r.in_progress
        IN /\ ~moving => r.estimated_completion = "Unknown"
           /\ moving =>
                  \E days \in 0..(remaining * sessions) :
                      /\ r.estimated_completion = ToString(days) \o " days"
                      /\ 2 * r.completed * days <= remaining * sessions
                      /\ remaining * sessions < 2 * r.completed * (days + 1)

\* C16 happens: after two recorded sessions, with one Done item and two
\* remaining, the estimate is 2 days
C16_Witness ==
    /\ last.op = "calculate_progress"
    /\ GetOr(project_data, "session_count", 1) = 2
    /\ last.ret.val.completed = 1
    /\ last.ret.val.todo + last.ret.val.in_progress = 2
    /\ last.ret.val.estimated_completion = "2 days"

\* the positions of a list holding a given item
Holding(issues, item) == {i \in 1..Len(issues) : issues[i] = item}

\* C17: for 10 items, 4 of them Done and 2 In Progress, and a stored
\* session_count of 2, calculate_progress yields progress_percentage 45.0 and
\* velocity 2.0, and the milestone determined for that percentage is
\* features, also when a session summary derives the three in one go.
C17_EndToEnd ==
    LET scenario == /\ Len(all_issues) = 10
                    /\ Cardinality(Holding(all_issues, ItemDone)) = 4
                    /\ Cardinality(Holding(all_issues, ItemInProgress)) = 2
                    /\ "session_count" \in DOMAIN project_data
                    /\ project_data.session_count = 2
    IN /\ (scenario /\ last.op = "calculate_progress") =>
              /\ last.ret.val.progress_percentage = 450
              /\ last.ret.val.velocity = 200
              /\ determine_current_milestone(last.ret.val.progress_percentage).key = "features"
       /\ (scenario /\ last.op = "generate_session_summary") =>
              /\ last.ret.val.progress.progress_percentage = 450
              /\ last.ret.val.progress.velocity = 200
              /\ last.ret.val.milestone.key = "features"

\* C17 happens: after two recorded sessions a session summary was generated
\* for the ten items
C17_Witness ==
    /\ last.op = "generate_session_summary"
    /\ all_issues = TenItems
    /\ GetOr(project_data, "session_count", 1) = 2
    /\ Len(project_data.session_history) = 2
    /\ last.ret.val.progress.completed = 4
    /\ last.ret.val.milestone.key = "features"

----------------------------------------------------------------------------
(* The session loop: run_optimized_autonomous_agent                        *)
(* (autonomous_agent_optimized.py)                                         *)

MaxCeiling == 2      \* the ceilings --max-iterations is explored with: 0..MaxCeiling
MaxIterations == 3   \* iterations explored of a run that has not ended

RETRY_DELAY == 3     \* autonomous_agent_optimized.py:240

\* the values of max_iterations: None, or an integer
Ceilings == {None} \cup {Some(n) : n \in 0..MaxCeiling}

\* truthiness of max_iterations: None and 0 are false
TruthyInt(n) == n.some /\ n.val # 0

\* what a session can come to: the client cannot be created, the agent
\* raises, or the agent returns a status
Outcomes == {"client_error", "raises", "continue", "error"}

\* what the rest of the try block can come to once the agent has returned:
\* it runs to its end with the commit (if any) successful, it runs to its end
\* with commit_and_push returning (False, msg), or the session's log and
\* summary (lines 170-194) raise
PostFates == {"completes", "commit_fails", "raises"}

\* a session of the run: its agent_type, whether the marker existed when it
\* started, how it has ended, the steps it has completed in their order
\* ("agent": run_agent_session returned, "post": the session's log and
\* summary, "commit": commit_and_push, "delay": asyncio.sleep), and what
\* commit_and_push returned
Session(mode, marker, outcome) ==
    [mode |-> mode, marker |-> marker, outcome |-> outcome, steps |-> <<>>,
     commit |-> "none"]

\* the history with the outcome of its last session set
Ended(hist, outcome) == [hist EXCEPT ![Len(hist)].outcome = outcome]

\* the history with one more step of its last session
Step(hist, step) == [hist EXCEPT ![Len(hist)].steps = Append(@, step)]

\* Committed calling commit_and_push a second time
Committed_twice(hist, commit_success) ==
    [Step(Step(hist, "commit"), "commit") EXCEPT
        ![Len(hist)].commit = IF commit_success THEN "ok" ELSE "failed"]

\* the history with the commit step of its last session and its result
Committed(hist, commit_success) ==
    [Step(hist, "commit") EXCEPT
        ![Len(hist)].commit = IF commit_success THEN "ok" ELSE "failed"]

\* the content of .linear_project.json where it exists when the run starts
ProjectFile ==
    IF linear_marker
    THEN Some(create_initializer_summary("P", "Project", 0, EmptyDict, FALSE, 0))
    ELSE None

\* a project directory with or without the marker of an earlier run, an
\* environment, and the orchestrator not yet started
InitLoop ==
    /\ InitCache
    /\ InitOrchestrator
    /\ environ \in [{"CLAUDE_CODE_OAUTH_TOKEN", "LINEAR_API_KEY"} -> EnvValues]
    /\ all_issues = <<>>
    /\ project_data = EmptyDict
    /\ linear_marker \in BOOLEAN
    /\ project_file_data = ProjectFile

\* run_optimized_autonomous_agent(project_dir, model, max_iterations, ...,
\* auto_push) up to the loop: the integration is constructed, and
\* is_first_run = not linear_marker.exists()
Start(n, push) ==
    /\ loop_pc = "idle"
    /\ project_data' = load_project_data(project_file_data)
    /\ max_iterations' = n
    /\ auto_push' = push
    /\ is_first_run' = ~linear_marker
    /\ iteration' = 0
    /\ loop_pc' = "head"
    /\ UNCHANGED <<clock, environ, tier_vars, rate_vars, last, linear_marker,
                   project_file_data, all_issues,
                   agent_status, started, slept>>

\* the head of the loop: iteration += 1, the break at the ceiling, and the
\* session's id, agent_type and logger
LoopHead ==
    /\ loop_pc = "head"
    /\ iteration < MaxIterations
    /\ iteration' = iteration + 1
    /\ IF TruthyInt(max_iterations) /\ iteration' > max_iterations.val
       THEN /\ loop_pc' = "done"
            /\ UNCHANGED started
       ELSE /\ loop_pc' = "try"
            /\ started' = Append(started,
                                 Session(IF is_first_run THEN "initializer" ELSE "coding",
                                         linear_marker, "running"))
    /\ UNCHANGED <<clock, environ, tier_vars, rate_vars, last, progress_vars, max_iterations,
                   auto_push, is_first_run, agent_status, slept>>

\* the try block up to the end of the agent session: the client is created,
\* the prompt chosen by is_first_run, and the agent runs; an initializer
\* session may write the marker before it ends
RunSession(outcome, writes_marker) ==
    /\ loop_pc = "try"
    /\ writes_marker => (is_first_run /\ outcome # "client_error")
    /\ linear_marker' = (linear_marker \/ writes_marker)
    /\ project_file_data' =
           IF writes_marker /\ ~linear_marker
           THEN Some(create_initializer_summary("P", "Project", 0, EmptyDict, FALSE, 0))
           ELSE project_file_data
    /\ started' = IF outcome \in {"continue", "error"}
                  THEN Step(Ended(started, outcome), "agent")
                  ELSE Ended(started, outcome)
    /\ IF outcome \in {"client_error", "raises"}
       THEN /\ loop_pc' = "except"
            /\ UNCHANGED agent_status
       ELSE /\ loop_pc' = "post"
            /\ agent_status' = outcome
    /\ UNCHANGED <<clock, environ, tier_vars, rate_vars, last, project_data, all_issues,
                   max_iterations, auto_push, iteration, is_first_run, slept>>

\* PostProcess committing before the session's log and summary
PostProcess_commit_first(fate) ==
    /\ loop_pc = "post"
    /\ fate = "commit_fails" => auto_push
    /\ IF fate = "raises"
       THEN /\ loop_pc' = "except"
            /\ started' = Ended(started, "raises")
            /\ UNCHANGED <<is_first_run, last>>
       ELSE /\ loop_pc' = "delay"
            /\ started' = IF auto_push
                          THEN Step(Committed(started, fate = "completes"), "post")
                          ELSE Step(started, "post")
            /\ is_first_run' = FALSE
            /\ last' = Call("get_api_stats", "", None,
                            Some(get_api_stats(api_call_count, api_call_timestamps,
                                               permanent_cache)), "", clock)
    /\ UNCHANGED <<clock, environ, tier_vars, rate_vars, progress_vars, max_iterations,
                   auto_push, iteration, agent_status, slept>>

\* the rest of the try block: the session's log and summary, the commit and
\* push when auto_push, the API usage check, the switch to the coding agent
\* and the status message; the log and summary may raise
PostProcess(fate) ==
    /\ loop_pc = "post"
    /\ fate = "commit_fails" => auto_push
    /\ IF fate = "raises"
       THEN /\ loop_pc' = "except"
            /\ started' = Ended(started, "raises")
            /\ UNCHANGED <<is_first_run, last>>
       ELSE /\ loop_pc' = "delay"
            /\ started' = IF auto_push
                          THEN Committed(Step(started, "post"), fate = "completes")
                          ELSE Step(started, "post")
            /\ is_first_run' = FALSE
            /\ last' = Call("get_api_stats", "", None,
                            Some(get_api_stats(api_call_count, api_call_timestamps,
                                               permanent_cache)), "", clock)
    /\ UNCHANGED <<clock, environ, tier_vars, rate_vars, progress_vars, max_iterations,
                   auto_push, iteration, agent_status, slept>>

\* HandleException letting the exception end the run
HandleException_reraise ==
    /\ loop_pc = "except"
    /\ loop_pc' = "done"
    /\ UNCHANGED <<clock, environ, tier_vars, rate_vars, last, progress_vars, max_iterations,
                   auto_push, iteration, is_first_run, agent_status, started, slept>>

\* except Exception: the error is logged and printed
HandleException ==
    /\ loop_pc = "except"
    /\ loop_pc' = "delay"
    /\ UNCHANGED <<clock, environ, tier_vars, rate_vars, last, progress_vars, max_iterations,
                   auto_push, iteration, is_first_run, agent_status, started, slept>>

\* the end of the loop body: asyncio.sleep(3) unless this was the last
\* iteration of a ceiling
Delay ==
    /\ loop_pc = "delay"
    /\ IF ~max_iterations.some \/ iteration < max_iterations.val
       THEN /\ slept' = Append(slept, RETRY_DELAY)
            /\ started' = Step(started, "delay")
       ELSE UNCHANGED <<slept, started>>
    /\ loop_pc' = "head"
    /\ UNCHANGED <<clock, environ, tier_vars, rate_vars, last, progress_vars, max_iterations,
                   auto_push, iteration, is_first_run, agent_status>>

\* os.environ.get(name) is falsy: the variable is unset or empty
NotSet(v) == ~v.some \/ v.val = ""

\* validate_environment(): the message printed before sys.exit(1), or ""
\* when both variables are set
validate_environment(oauth_token, linear_key) ==
    IF NotSet(oauth_token)
    THEN "Error: CLAUDE_CODE_OAUTH_TOKEN environment variable not set."
    ELSE IF NotSet(linear_key)
    THEN "Error: LINEAR_API_KEY environment variable not set."
    ELSE ""

\* Main running the agent whatever validate_environment finds
Main_unvalidated(n, push) ==
    Start(n, push)

\* main(): the arguments are parsed, validate_environment() ends the process
\* with sys.exit(1) when a variable is not set, and otherwise
\* run_optimized_autonomous_agent is run with --max-iterations and the
\* negation of --no-push
Main(n, push) ==
    IF validate_environment(environ.CLAUDE_CODE_OAUTH_TOKEN, environ.LINEAR_API_KEY) # ""
    THEN /\ loop_pc = "idle"
         /\ loop_pc' = "exit_1"
         /\ last' = Call("validate_environment", "", None, None,
                         validate_environment(environ.CLAUDE_CODE_OAUTH_TOKEN,
                                              environ.LINEAR_API_KEY), clock)
         /\ UNCHANGED <<clock, environ, tier_vars, rate_vars, progress_vars, max_iterations,
                        auto_push, iteration, is_first_run, agent_status, started,
                        slept>>
    ELSE Start(n, push)

DoMain == \E n \in Ceilings, push \in BOOLEAN : Main(n, push)
DoRunSession == \E outcome \in Outcomes, writes_marker \in BOOLEAN : RunSession(outcome, writes_marker)
DoPostProcess == \E fate \in PostFates : PostProcess(fate)

NextLoop ==
    \/ DoMain
    \/ LoopHead
    \/ DoRunSession
    \/ DoPostProcess
    \/ HandleException
    \/ Delay

SpecLoop == InitLoop /\ [][NextLoop]_vars

----------------------------------------------------------------------------
(* Claims about the session loop *)

\* the ceiling is not reached: there is none, or more iterations are allowed
CeilingNotReached == ~max_iterations.some \/ iteration < max_iterations.val

\* C18: a single session's failure never ends the loop. The run ends only at
\* the head of the loop, by the ceiling; an exception from the client's
\* creation, the agent or the post-processing is handled and leads to the
\* end of the loop body, as does a session that returned status error; and
\* as long as the ceiling is not reached the loop body ends with the retry
\* delay of 3 seconds and the head of the loop starts the next session.
C18_FailureNeverEndsTheLoop ==
    [][/\ (loop_pc' = "done" /\ loop_pc # "done") =>
              /\ loop_pc = "head"
              /\ max_iterations.some
              /\ iteration' > max_iterations.val
       /\ loop_pc = "try" => loop_pc' \in {"post", "except"}
       /\ loop_pc = "except" => loop_pc' = "delay"
       /\ loop_pc = "post" => loop_pc' \in {"delay", "except"}
       /\ loop_pc = "delay" =>
              /\ loop_pc' = "head"
              /\ CeilingNotReached => slept' = Append(slept, RETRY_DELAY)
       /\ (loop_pc = "head" /\ CeilingNotReached) =>
              /\ loop_pc' = "try"
              /\ Len(started') = Len(started) + 1]_vars

\* C18 happens: the first session returned status error, the second raised,
\* each was followed by the delay, and the third session has started
C18_Witness ==
    /\ loop_pc = "try"
    /\ Len(started) = 3
    /\ started[1].outcome = "error"
    /\ started[2].outcome = "raises"
    /\ slept = <<RETRY_DELAY, RETRY_DELAY>>

\* C19 as stated, its part about finite runs: with a ceiling N >= 0 given at
\* startup at most N sessions are ever started, exactly N when the run has
\* ended, and without a ceiling the run does not end.
C19_CeilingBoundsSessions ==
    /\ max_iterations.some => Len(started) <= max_iterations.val
    /\ (max_iterations.some /\ loop_pc = "done") => Len(started) = max_iterations.val
    /\ (~max_iterations.some) => loop_pc # "done"

\* C20 as stated: a session runs in coding mode only if the marker exists
\* when the session starts, and in initializer mode only if it does not.
C20_ModeFollowsMarker ==
    \A i \in 1..Len(started) :
        (started[i].mode = "coding") <=> started[i].marker

\* the sessions of the run that have gone through the step
Reached(step) ==
    {i \in 1..Len(started) : \E j \in 1..Len(started[i].steps) : started[i].steps[j] = step}

\* the length of one of the histories of the project's state
HistoryLen(key) == Len(GetOr(project_data, key, <<>>))

\* C21 as stated: after k sessions of a run that reached post-processing,
\* each of session_history, health_history and velocity_history of the
\* project's state has grown by k entries (the run starts with none).
C21_HistoriesGrowPerSession ==
    \A key \in {"session_history", "health_history", "velocity_history"} :
        HistoryLen(key) = Cardinality(Reached("post"))

\* a credential main() requires is not set
CredentialMissing ==
    NotSet(environ.CLAUDE_CODE_OAUTH_TOKEN) \/ NotSet(environ.LINEAR_API_KEY)

\* C22: configuration errors are fatal before the loop. When main() is
\* started with CLAUDE_CODE_OAUTH_TOKEN or LINEAR_API_KEY not set, it leaves
\* the idle state only by reporting the error and exiting with status 1, and
\* stays there: no session is ever started (no agent invocation, no commit),
\* no delay is slept and the loop is never entered. With both set, it never
\* exits that way.
C22_ConfigurationErrorIsFatal ==
    /\ CredentialMissing =>
           /\ loop_pc \in {"idle", "exit_1"}
           /\ started = <<>>
           /\ slept = <<>>
           /\ iteration = 0
           /\ loop_pc = "exit_1" =>
                  /\ last.op = "validate_environment"
                  /\ last.out # ""
    /\ ~CredentialMissing => loop_pc # "exit_1"

\* C22 happens: the process has exited because LINEAR_API_KEY is empty
C22_Witness ==
    /\ loop_pc = "exit_1"
    /\ environ.LINEAR_API_KEY = Some("")
    /\ last.out = "Error: LINEAR_API_KEY environment variable not set."
    /\ started = <<>>

\* the place of a step in the body of the loop
Rank(step) ==
    CASE step = "agent" -> 1
      [] step = "post" -> 2
      [] step = "commit" -> 3
      [] step = "delay" -> 4

\* how often a session has gone through the step
Times(i, step) ==
    Cardinality({j \in 1..Len(started[i].steps) : started[i].steps[j] = step})

\* the body of the loop is over for the session: a later session has
\* started, or the run stands between the try block and the next session
BodyOver(i) == i < Len(started) \/ loop_pc \in {"delay", "head", "done"}

\* C25: sessions never overlap. At most one session is in flight, the last
\* one started, and only while the run stands in its agent invocation; when
\* the next session has started, the one before has ended, and if its agent
\* returned and its post-processing completed, the commit step (when
\* auto_push) has completed too; and the steps of every session follow the
\* order agent, post-processing, commit, delay.
C25_SessionsNeverOverlap ==
    \A i \in 1..Len(started) :
        /\ started[i].outcome = "running" => (i = Len(started) /\ loop_pc = "try")
        /\ i < Len(started) =>
               /\ started[i].outcome # "running"
               /\ started[i].outcome \in {"continue", "error"} =>
                      /\ Times(i, "agent") = 1
                      /\ Times(i, "post") = 1
                      /\ auto_push => started[i].commit # "none"
        /\ \A j \in 1..(Len(started[i].steps) - 1) :
               Rank(started[i].steps[j]) < Rank(started[i].steps[j + 1])

\* C25 happens: a second session is in flight after a first one that went
\* through the agent, the post-processing, the commit and the delay
C25_Witness ==
    /\ Len(started) = 2
    /\ started[1].steps = <<"agent", "post", "commit", "delay">>
    /\ started[2].outcome = "running"
    /\ loop_pc = "try"

\* C26 as stated: between two consecutive sessions exactly one delay of 3
\* seconds is slept, however the earlier one ended, and none is slept after
\* the last session the ceiling allows.
C26_OneDelayBetweenSessions ==
    /\ \A i \in 1..(Len(started) - 1) : Times(i, "delay") = 1
    /\ Len(started) > 0 => Times(Len(started), "delay") <= 1
    /\ \A j \in 1..Len(slept) : slept[j] = RETRY_DELAY
    /\ (max_iterations.some /\ Len(started) > 0 /\ Len(started) >= max_iterations.val) =>
           Times(Len(started), "delay") = 0

----------------------------------------------------------------------------
(* The cache and its file: failing writes, unreadable files and restarts *)

\* the document save_cache writes for a permanent tier
Document(pc) ==
    [kind |-> "json", permanent |-> pc, metadata |-> EmptyDict, last_updated |-> 0]

\* an entry of the permanent tier written by an earlier process
EntryA == [id |-> "A", title |-> "t1", description |-> "d1", priority |-> 1, cached_at |-> 0]

\* what LinearCache(project_dir) can find at .linear_cache.json: no file, a
\* file whose json.load() or open() raises, or a document an earlier process
\* saved, with or without an entry
DiskFiles ==
    {NoFile, CorruptFile, UnreadableFile,
     Document([issues |-> EmptyDict]), Document([issues |-> ("A" :> EntryA)])}

\* the issue lists handed to cache_session_issues where writes may fail
DiskIssueLists == {<<IssueA2, IssueB>>, <<IssueNoId, IssueB>>}

\* LinearCache(project_dir) on a directory holding one of the files
InitDisk ==
    /\ clock = 0
    /\ cache_file \in DiskFiles
    /\ permanent_cache = load_cache(cache_file).permanent_cache
    /\ metadata_cache = load_cache(cache_file).metadata_cache
    /\ session_cache = EmptyDict
    /\ api_call_count = 0
    /\ api_call_timestamps = <<>>
    /\ last = Call("load_cache", "", None, None, load_cache(cache_file).out, 0)
    /\ first_put = EmptyDict
    /\ last_put = EmptyDict
    /\ calls = <<>>
    /\ api_reached = 0
    /\ InitIntegration
    /\ InitIdle

\* the process ends and LinearCache(project_dir) is constructed again on the
\* same directory: __init__ and load_cache
Restart ==
    /\ permanent_cache' = load_cache(cache_file).permanent_cache
    /\ metadata_cache' = load_cache(cache_file).metadata_cache
    /\ session_cache' = EmptyDict
    /\ api_call_count' = 0
    /\ api_call_timestamps' = <<>>
    /\ first_put' = EmptyDict
    /\ last_put' = EmptyDict
    /\ last' = Call("load_cache", "", None, None, load_cache(cache_file).out, clock)
    /\ UNCHANGED <<other_vars, clock, cache_file, calls, api_reached>>

DoPutPermanentDisk == \E issue \in Issues, io \in SaveOutcomes : PutPermanent(issue, io)
DoPutSessionDisk ==
    \E issues \in DiskIssueLists, ios \in [1..2 -> SaveOutcomes] : PutSession("P", issues, ios)

NextDisk ==
    \/ DoGetPermanent
    \/ DoPutPermanentDisk
    \/ DoPutSessionDisk
    \/ Restart

SpecDisk == InitDisk /\ [][NextDisk]_vars

----------------------------------------------------------------------------
(* Claims about the cache and its file, checked under SpecDisk *)

\* the document on disk holds the permanent tier as it is in memory
Synced == cache_file.kind = "json" /\ cache_file.permanent = permanent_cache

\* C23: a cache-write failure never aborts the caller. Whatever the writes
\* of the cache file come to, put_permanent returns (None) with the id in
\* the permanent tier, and put_session returns with its session entry stored
\* (the list as given, stamped with the time of the call) and every item of
\* the list that has an id in the permanent tier.
C23_WriteFailureNeverAborts ==
    /\ last.op = "put_permanent" =>
           /\ last.ret = None
           /\ last.key \in DOMAIN permanent_cache["issues"]
    /\ last.op = "put_session" =>
           /\ last.ret = None
           /\ cache_key(last.key) \in DOMAIN session_cache
           /\ session_cache[cache_key(last.key)] =
                  [issues |-> last.arg.val, timestamp |-> last.at]
           /\ \A i \in 1..Len(last.arg.val) :
                  Truthy(last.arg.val[i].id) =>
                      last.arg.val[i].id \in DOMAIN permanent_cache["issues"]

\* C23 happens: a put_session of two issues has returned after a write failed
\* and left the file unusable, and both issues are in the permanent tier
C23_Witness ==
    /\ last.op = "put_session"
    /\ last.out = "Failed to save cache"
    /\ last.arg.val = <<IssueA2, IssueB>>
    /\ cache_file = CorruptFile
    /\ DOMAIN permanent_cache["issues"] = {"A", "B"}

\* C24: an unreadable cache file is recovered locally. After a construction
\* that found no file, or a file that cannot be opened or parsed, the
\* permanent tier is the empty item map and the metadata tier is empty, so
\* every get_permanent is absent; and put_permanent works on such a cache:
\* every id put into this cache object is in its permanent tier.
C24_UnreadableFileRecovered ==
    /\ (last.op = "load_cache" /\ cache_file.kind # "json") =>
           /\ permanent_cache = [issues |-> EmptyDict]
           /\ metadata_cache = EmptyDict
           /\ \A id \in IssueIds : get_cached_issue(permanent_cache, id) = None
    /\ last.op = "load_cache" =>
           (last.out = "Failed to load cache" <=> cache_file.kind \in {"corrupt", "unreadable"})
    /\ \A id \in DOMAIN first_put : get_cached_issue(permanent_cache, id).some

\* C24 happens: the cache was constructed on a file that cannot be opened,
\* B was put and is returned
C24_Witness ==
    /\ cache_file = UnreadableFile
    /\ last.op = "get_permanent"
    /\ last.key = "B"
    /\ last.ret.some
    /\ last.ret.val.title = "t3"

\* C29: durability of the permanent tier. A put_permanent that inserts and
\* whose write succeeds leaves on disk a document whose permanent tier is
\* the one in memory; a cache constructed again on a directory whose
\* document holds the permanent tier in memory has the same permanent tier,
\* so get_permanent returns the same for every id; and a put_permanent for
\* an id in the tier, loaded or inserted, changes nothing.
C29_PermanentTierDurable ==
    [][/\ (/\ last'.op = "put_permanent"
           /\ last'.key \notin DOMAIN permanent_cache["issues"]
           /\ last'.out = "") =>
              /\ Synced'
              /\ load_cache(cache_file').permanent_cache = permanent_cache'
       /\ (last'.op = "load_cache" /\ Synced) =>
              /\ permanent_cache' = permanent_cache
              /\ \A id \in IssueIds :
                     get_cached_issue(permanent_cache', id) =
                         get_cached_issue(permanent_cache, id)
       /\ (last'.op = "put_permanent" /\ last'.key \in DOMAIN permanent_cache["issues"]) =>
              /\ permanent_cache' = permanent_cache
              /\ cache_file' = cache_file]_vars

\* C29 happens: A was inserted and written, the cache was constructed again,
\* and a put_permanent of another version of A has left the loaded entry
C29_Witness ==
    /\ last.op = "put_permanent"
    /\ last.arg.val = IssueA1
    /\ first_put = ("A" :> IssueA1)
    /\ get_cached_issue(permanent_cache, "A").val.title = "t2"
    /\ Synced

\* the keys of the project's state update_session_history writes
HistoryKeys == {"session_history", "health_history", "velocity_history"}

\* one of the histories of a project state, [] where it has none
HistoryOf(pd, key) == GetOr(pd, key, <<>>)

----------------------------------------------------------------------------
(* The cache of two projects: what get_permanent and invalidate_session leave alone *)

\* the issue lists of the two projects
FrameIssueLists == {<<>>, <<IssueA1>>}

DoFillSessionFrame ==
    \E p \in ProjectIds, issues \in FrameIssueLists :
        PutSession(p, issues, [i \in 1..Len(issues) |-> "ok"])
DoInvalidateSessionFrame == \E p \in ProjectIds : InvalidateSession(p)

NextFrame ==
    \/ DoGetPermanent
    \/ DoFillSessionFrame
    \/ DoInvalidateSessionFrame
    \/ RecordCall

SpecFrame == Init /\ [][NextFrame]_vars

\* the state of the cache: its file, its tiers and its rate window
frame_vars ==
    <<cache_file, permanent_cache, metadata_cache, session_cache, api_call_count,
      api_call_timestamps>>

\* C30: frame conditions of the cache. No step that changes the file, a
\* tier or the rate window of the cache is a get_permanent; and when such a
\* step is an invalidate_session(P), P had a session entry, the session
\* cache is left with the entries of the other list keys as they were and
\* without the one of P, and the permanent tier, the metadata tier, the file
\* and the rate window are as they were. So invalidate_session(P) where P
\* has no entry changes nothing.
C30_FrameConditions ==
    [][/\ last'.op # "get_permanent"
       /\ last'.op = "invalidate_session" =>
              /\ cache_key(last'.key) \in DOMAIN session_cache
              /\ DOMAIN session_cache' = DOMAIN session_cache \ {cache_key(last'.key)}
              /\ \A k \in DOMAIN session_cache' : session_cache'[k] = session_cache[k]
              /\ UNCHANGED <<cache_file, permanent_cache, metadata_cache, api_call_count,
                             api_call_timestamps>>]_frame_vars

\* C30 happens: with A in the permanent tier, calls in the rate window and
\* session entries for P and Q, invalidate_session(P) has left the entry of
\* Q alone
C30_Witness ==
    /\ last.op = "invalidate_session"
    /\ last.key = "P"
    /\ last.out = "session cache invalidated"
    /\ DOMAIN session_cache = {cache_key("Q")}
    /\ session_cache[cache_key("Q")].issues = <<IssueA1>>
    /\ "A" \in DOMAIN permanent_cache["issues"]
    /\ api_call_count = 2

----------------------------------------------------------------------------
(* Claims about what the wrapper records, checked under SpecClient *)

\* C31 as stated: list_issues records no API call whenever the session tier
\* holds a fresh entry for the project, whatever the cached list and the
\* status filter, and exactly one call otherwise; get_issue records no call
\* when the id is in the permanent tier, and exactly one otherwise.
C31_HitsRecordNoCall ==
    [][/\ last'.op = "list_issues" =>
              IF get_session_issues(session_cache, last'.key, clock).some
              THEN /\ api_call_count' = api_call_count
                   /\ api_call_timestamps' = api_call_timestamps
              ELSE api_call_count' = api_call_count + 1
       /\ last'.op = "get_issue" =>
              IF get_cached_issue(permanent_cache, last'.key).some
              THEN /\ api_call_count' = api_call_count
                   /\ api_call_timestamps' = api_call_timestamps
              ELSE api_call_count' = api_call_count + 1]_vars

----------------------------------------------------------------------------
(* The cache constructed on any document that parses *)

\* a document whose top-level value is not a dict: null or a list
JsonValueFile == [kind |-> "json_value"]

\* the documents json.load() accepts: {}, a dict whose 'permanent' is {},
\* null, a dict without or with a null or a list 'issues', a value that is
\* not a dict, and the documents save_cache writes
ParsedFiles ==
    {[kind |-> "json"],
     [kind |-> "json", permanent |-> EmptyDict],
     [kind |-> "json", permanent |-> JsonNull],
     [kind |-> "json", permanent |-> [issues |-> JsonNull]],
     [kind |-> "json", permanent |-> [issues |-> JsonEmptyList], metadata |-> EmptyDict],
     JsonValueFile,
     Document([issues |-> EmptyDict]),
     Document([issues |-> ("A" :> EntryA)])}

\* LinearCache(project_dir) on a directory holding one of the documents
InitParse ==
    /\ clock = 0
    /\ cache_file \in ParsedFiles
    /\ permanent_cache = load_cache(cache_file).permanent_cache
    /\ metadata_cache = load_cache(cache_file).metadata_cache
    /\ session_cache = EmptyDict
    /\ api_call_count = 0
    /\ api_call_timestamps = <<>>
    /\ last = Call("load_cache", "", None, None, load_cache(cache_file).out, 0)
    /\ first_put = EmptyDict
    /\ last_put = EmptyDict
    /\ calls = <<>>
    /\ api_reached = 0
    /\ InitIntegration
    /\ InitIdle

NextParse ==
    \/ DoGetPermanent
    \/ DoPutPermanent
    \/ Stats
    \/ Restart

SpecParse == InitParse /\ [][NextParse]_vars

\* the permanent tier holds an item map
HoldsItemMap ==
    /\ IsDict(permanent_cache)
    /\ "issues" \in DOMAIN permanent_cache
    /\ IsDict(permanent_cache["issues"])

\* C32 as stated: in every state after the construction of the cache on a
\* document that parses, the permanent tier holds an item map, and no
\* get_permanent, put_permanent or stats has raised.
C32_TierHoldsItemMap ==
    /\ HoldsItemMap
    /\ last.op \in {"get_permanent", "put_permanent", "stats"} =>
           last.out \notin Exceptions

====
